---- MODULE Spec2Model ----
(***************************************************************************)
(* Model of application/export_import/load_form_data.py (LoadFormData):    *)
(* the fixture loader load / loaddata / load_label / find_fixtures /       *)
(* parse_name.                                                             *)
(*                                                                         *)
(* A Python string is a sequence of tokens.  "." and "/" are tokens of     *)
(* their own, every other token is a word that holds neither; no word is   *)
(* a prefix of another, so prefix, split and join on token sequences are   *)
(* prefix, split and join on the strings they spell.                       *)
(***************************************************************************)
EXTENDS Integers, Sequences, FiniteSets, TLC

VARIABLES
    has_bz2,      \* module flag has_bz2 (the bz2 import succeeded)
    files,        \* the file system: the set of paths of existing files
    op,           \* which operation the pure-function specifications applied
    arg,          \* the string handed to parse_name / find_fixtures
    parsed,       \* what parse_name gave
    found,        \* what find_fixtures gave
    \* the environment of a load
    routerDenied, \* the model classes router.allow_migrate_model refuses
    hasSequences, \* the backend's sequence_reset_sql yields SQL for a model
    formTypes,    \* the names of the FormType rows with tag_enabled = True
    \* the LoadFormData object
    verbosity,              \* self.verbosity
    excluded_models,        \* self.excluded_models
    excluded_apps,          \* self.excluded_apps
    fixture_count,          \* self.fixture_count
    loaded_object_count,    \* self.loaded_object_count
    fixture_object_count,   \* self.fixture_object_count
    models,                 \* self.models
    \* the position of load / loaddata / load_label and their locals
    phase,                  \* "idle", "base", "tags", "direct", "done"
    pc,                     \* the statement reached
    fixture_labels,         \* loaddata's argument
    li,                     \* index of the label load_label is called for
    fixture_files,          \* the list find_fixtures gave load_label
    fi,                     \* index of the fixture file being loaded
    ser_fmt,                \* load_label's ser_fmt
    objects_in_fixture,
    loaded_objects_in_fixture,
    fileOpen,               \* fixture is open
    inBlock,                \* inside connection.constraint_checks_disabled()
    err,                    \* the exception that left loaddata, "none" if none
    \* what the run has done (reset when loaddata starts)
    opened,                 \* fixture files opened successfully
    savedClasses,           \* classes of the objects obj.save was called for
    everDisabled,           \* constraint checks were disabled
    checked,                \* check_constraints returned
    resetDone,              \* the sequence-reset statement was passed
    executed,               \* the sequence-reset SQL lines executed
    reported,               \* the count report was written
    emptyRead,              \* fixtures read to their end that held no object
    warnings                \* "No fixture data found" warnings issued

pureVars == <<has_bz2, files, op, arg, parsed, found>>

envVars == <<routerDenied, hasSequences, formTypes>>

cfgVars == <<verbosity, excluded_models, excluded_apps>>

countVars == <<fixture_count, loaded_object_count, fixture_object_count, models>>

callVars == <<phase, fixture_labels>>

labelVars == <<li, fixture_files, fi, ser_fmt>>

fixVars == <<objects_in_fixture, loaded_objects_in_fixture>>

ctlVars == <<pc, fileOpen, inBlock, err>>

objVars == <<cfgVars, countVars>>

posVars == <<callVars, labelVars, fixVars, ctlVars>>

runVars ==
    <<opened, savedClasses, everDisabled, checked, resetDone, executed,
      reported, emptyRead, warnings>>

loadVars == <<envVars, objVars, posVars, runVars>>

vars == <<pureVars, loadVars>>

----------------------------------------------------------------------------
(* Strings *)

Dot == "."
PathSep == "/"

\* Python's None; no string over the alphabet spells it.
None == <<"None">>

\* the empty string
Empty == <<>>

Max(S) == CHOOSE x \in S : \A y \in S : y <= x

\* F(e), with e evaluated once: a local variable assigned e and then used
Let(e, F(_)) == CHOOSE r \in {F(x) : x \in {e}} : TRUE

\* str.rfind of a one-character separator: the last index holding t, 0 if none
LastIndexOf(s, t) ==
    LET hits == {i \in 1..Len(s) : s[i] = t}
    IN  IF hits = {} THEN 0 ELSE Max(hits)

StartsWith(s, p) ==
    /\ Len(p) <= Len(s)
    /\ SubSeq(s, 1, Len(p)) = p

RECURSIVE rsplit(_, _)
\* s.rsplit('.', maxsplit): the list of parts, split at the last maxsplit dots
rsplit(s, maxsplit) ==
    LET i == LastIndexOf(s, Dot)
    IN  IF maxsplit = 0 \/ i = 0
        THEN <<s>>
        ELSE Append(rsplit(SubSeq(s, 1, i - 1), maxsplit - 1),
                    SubSeq(s, i + 1, Len(s)))

RECURSIVE DotJoin(_)
\* '.'.join(parts)
DotJoin(parts) ==
    IF Len(parts) = 0 THEN Empty
    ELSE IF Len(parts) = 1 THEN parts[1]
    ELSE DotJoin(SubSeq(parts, 1, Len(parts) - 1)) \o <<Dot>> \o parts[Len(parts)]

\* parts[:-1]
ButLast(parts) == SubSeq(parts, 1, Len(parts) - 1)

\* parts[-1]
Last(parts) == parts[Len(parts)]

\* os.path.isabs
isabs(p) == Len(p) > 0 /\ p[1] = PathSep

\* os.path.basename: what follows the last slash
basename(p) == SubSeq(p, LastIndexOf(p, PathSep) + 1, Len(p))

\* os.path.dirname: what precedes the last slash ("/" for a file of the root)
dirname(p) ==
    LET i == LastIndexOf(p, PathSep)
    IN  IF i = 0 THEN Empty
        ELSE IF i = 1 THEN <<PathSep>>
        ELSE SubSeq(p, 1, i - 1)

\* os.path.join(a, b)
pathjoin(a, b) ==
    IF isabs(b) THEN b
    ELSE IF a = Empty \/ Last(a) = PathSep THEN a \o b
    ELSE a \o <<PathSep>> \o b

----------------------------------------------------------------------------
(* The formats *)

\* self.using, set by load() to DEFAULT_DB_ALIAS
DEFAULT_DB_ALIAS == <<"default">>

\* serializers.get_public_serializer_formats()
serialization_formats == {<<"xml">>, <<"json">>, <<"yaml">>, <<"form_data_tag">>}

\* the keys of self.compression_formats
compression_formats ==
    {None, <<"gz">>, <<"zip">>} \cup (IF has_bz2 THEN {<<"bz2">>} ELSE {})

----------------------------------------------------------------------------
(* parse_name *)

\* parse_name splitting at the last dot only (rsplit('.', 1))
parse_name_rsplit1(fixture_name) ==
    LET parts0 == rsplit(fixture_name, 1)
        hasCmp == Len(parts0) > 1 /\ Last(parts0) \in compression_formats
        cmp_fmt == IF hasCmp THEN Last(parts0) ELSE None
        parts1 == IF hasCmp THEN ButLast(parts0) ELSE parts0
    IN  IF Len(parts1) > 1
        THEN IF Last(parts1) \in serialization_formats
             THEN [err |-> FALSE, name |-> DotJoin(ButLast(parts1)),
                   ser_fmt |-> Last(parts1), cmp_fmt |-> cmp_fmt]
             ELSE [err |-> TRUE, name |-> None, ser_fmt |-> None, cmp_fmt |-> None]
        ELSE [err |-> FALSE, name |-> DotJoin(parts1),
              ser_fmt |-> None, cmp_fmt |-> cmp_fmt]

\* LoadFormData.parse_name: [err |-> TRUE] is the CommandError "... is not a
\* known serialization format"
parse_name(fixture_name) ==
    LET parts0 == rsplit(fixture_name, 2)
        hasCmp == Len(parts0) > 1 /\ Last(parts0) \in compression_formats
        cmp_fmt == IF hasCmp THEN Last(parts0) ELSE None
        parts1 == IF hasCmp THEN ButLast(parts0) ELSE parts0
    IN  IF Len(parts1) > 1
        THEN IF Last(parts1) \in serialization_formats
             THEN [err |-> FALSE, name |-> DotJoin(ButLast(parts1)),
                   ser_fmt |-> Last(parts1), cmp_fmt |-> cmp_fmt]
             ELSE [err |-> TRUE, name |-> None, ser_fmt |-> None, cmp_fmt |-> None]
        ELSE [err |-> FALSE, name |-> DotJoin(parts1),
              ser_fmt |-> None, cmp_fmt |-> cmp_fmt]

----------------------------------------------------------------------------
(* find_fixtures *)

\* LoadFormData.fixture_dirs: the app's fixtures directory, then the current
\* directory
fixture_dirs == << <<"/", "app">>, <<"/", "cwd">> >>

\* ext for ext in combo if ext
NonEmptyExts(combo) == SelectSeq(combo, LAMBDA ext : ext # None /\ ext # Empty)

\* the set targets of find_fixtures
Targets(fixture_name, ser, cmp) ==
    LET databases == {DEFAULT_DB_ALIAS, None}
        cmp_fmts  == IF cmp = None THEN compression_formats ELSE {cmp}
        ser_fmts  == IF ser = None THEN serialization_formats ELSE {ser}
    IN  { DotJoin(<<fixture_name, DotJoin(NonEmptyExts(<<db, s, c>>))>>) :
              db \in databases, s \in ser_fmts, c \in cmp_fmts }

\* the directories find_fixtures searches for a parsed name
SearchDirs(name) ==
    IF isabs(name) THEN <<dirname(name)>>
    ELSE IF \E i \in 1..Len(name) : name[i] = PathSep
    THEN [i \in 1..Len(fixture_dirs) |-> pathjoin(fixture_dirs[i], dirname(name))]
    ELSE fixture_dirs

\* the fixture_name find_fixtures looks for: the parsed name without its
\* directory
SearchName(name) ==
    IF isabs(name) \/ (\E i \in 1..Len(name) : name[i] = PathSep)
    THEN basename(name)
    ELSE name

\* glob's rule for dot-files
ishidden(base) == Len(base) > 0 /\ base[1] = Dot

\* glob.iglob(glob_escape(path) + '*'): the existing files of path's directory
\* whose name starts with path's last component; a pattern that does not start
\* with a dot matches no file that does
Glob(path) ==
    { f \in files :
        /\ dirname(f) = dirname(path)
        /\ StartsWith(basename(f), basename(path))
        /\ (ishidden(basename(path)) \/ ~ishidden(basename(f))) }

\* find_fixtures keeping every candidate the glob gives
AnyCandidate(candidate, targets) == TRUE

\* os.path.basename(candidate) in targets
InTargets(candidate, targets) == basename(candidate) \in targets

\* fixture_files_in_dir of one searched directory (its order is the glob's,
\* and matters only to the error message)
FilesInDir(fixture_dir, fixture_name, targets) ==
    { c \in Glob(pathjoin(fixture_dir, fixture_name)) : InTargets(c, targets) }

RECURSIVE CollectFiles(_, _, _, _)
\* fixture_files after the directories dirs[i..] have been searched, none of
\* which holds more than one file
CollectFiles(dirs, i, fixture_name, targets) ==
    IF i > Len(dirs) THEN <<>>
    ELSE LET here == FilesInDir(dirs[i], fixture_name, targets)
             rest == CollectFiles(dirs, i + 1, fixture_name, targets)
         IN  IF here = {} THEN rest
             ELSE << <<CHOOSE c \in here : TRUE, dirs[i], fixture_name>> >> \o rest

\* LoadFormData.find_fixtures: err is "format" (parse_name's CommandError),
\* "multiple" (Multiple fixtures named ...), "nofixture" (No fixture named ...)
\* or "none", and then fixture_files is the list returned
find_fixtures(fixture_label) ==
    Let(parse_name(fixture_label), LAMBDA p :
    IF p.err THEN [err |-> "format", fixture_files |-> <<>>]
    ELSE
    Let(SearchDirs(p.name), LAMBDA dirs :
    Let(SearchName(p.name), LAMBDA fixture_name :
    Let(Targets(fixture_name, p.ser_fmt, p.cmp_fmt), LAMBDA targets :
    Let(CollectFiles(dirs, 1, fixture_name, targets), LAMBDA collected :
        IF \E i \in 1..Len(dirs) :
               Cardinality(FilesInDir(dirs[i], fixture_name, targets)) > 1
        THEN [err |-> "multiple", fixture_files |-> <<>>]
        ELSE IF collected = <<>>
        THEN [err |-> "nofixture", fixture_files |-> <<>>]
        ELSE [err |-> "none", fixture_files |-> collected])))))

----------------------------------------------------------------------------
(* The inputs of the specifications of the pure functions *)

\* the most dot-separated parts of a name handed to parse_name
MaxParts == 4

\* the most files of the file system find_fixtures searches
MaxFiles == 2

fd == <<"form_data">>

\* words a name handed to parse_name is joined from
ParseWords ==
    {Empty, fd, <<"json">>, <<"gz">>, <<"bz2">>, <<"bak">>,
     <<"/", "fx", "/", "form_data">>}

RECURSIVE SeqsUpTo(_, _)
\* the sequences over S of length 1..n
SeqsUpTo(S, n) ==
    IF n = 0 THEN {}
    ELSE LET shorter == SeqsUpTo(S, n - 1)
         IN  {<<x>> : x \in S} \cup shorter
                 \cup {Append(s, x) : s \in shorter, x \in S}

ParseInputs == {DotJoin(ps) : ps \in SeqsUpTo(ParseWords, MaxParts)}

\* names of files that may exist
FileNames ==
    { fd \o <<Dot, "json">>,
      fd \o <<Dot, "default", Dot, "json">>,
      fd \o <<Dot, "json", Dot, "gz">>,
      fd \o <<Dot, "xml">>,
      fd \o <<Dot, "bak">>,
      fd,
      fd \o <<"_", "a", Dot, "json">>,
      fd \o <<Dot, "json", Dot, "bak">>,
      <<Dot, "json">>,
      <<Dot, "default", Dot, "json">> }

\* directories files may exist in
FileDirs ==
    { <<"/", "app">>, <<"/", "cwd">>, <<"/", "fx">>, <<"/", "app", "/", "sub">> }

FileUniverse == {pathjoin(d, n) : d \in FileDirs, n \in FileNames}

\* labels handed to find_fixtures
FindLabels ==
    { fd \o <<Dot, "json">>,
      fd,
      fd \o <<Dot, "gz">>,
      fd \o <<Dot, "json", Dot, "gz">>,
      fd \o <<Dot, "bak">>,
      fd \o <<Dot, "default", Dot, "json">>,
      <<"/", "fx", "/">> \o fd \o <<Dot, "json">>,
      <<"/", "fx", "/">> \o fd,
      <<"sub", "/">> \o fd \o <<Dot, "json">>,
      <<Dot, "json">>,
      <<"/", "fx", "/", Dot, "json">> }

NoParse == [err |-> FALSE, name |-> None, ser_fmt |-> None, cmp_fmt |-> None]
NoFind  == [err |-> "none", fixture_files |-> <<>>]

\* nothing has been loaded: the object before load() or loaddata() is called
InitLoad ==
    /\ verbosity = 0
    /\ excluded_models = {}
    /\ excluded_apps = {}
    /\ fixture_count = 0
    /\ loaded_object_count = 0
    /\ fixture_object_count = 0
    /\ models = {}
    /\ phase = "idle"
    /\ pc = "idle"
    /\ fixture_labels = <<>>
    /\ li = 0
    /\ fixture_files = <<>>
    /\ fi = 0
    /\ ser_fmt = None
    /\ objects_in_fixture = 0
    /\ loaded_objects_in_fixture = 0
    /\ fileOpen = FALSE
    /\ inBlock = FALSE
    /\ err = "none"
    /\ opened = 0
    /\ savedClasses = {}
    /\ everDisabled = FALSE
    /\ checked = FALSE
    /\ resetDone = FALSE
    /\ executed = {}
    /\ reported = FALSE
    /\ emptyRead = 0
    /\ warnings = 0

InitPure ==
    /\ has_bz2 \in BOOLEAN
    /\ files = {}
    /\ op = "none"
    /\ arg = Empty
    /\ parsed = NoParse
    /\ found = NoFind
    /\ routerDenied = {}
    /\ hasSequences = TRUE
    /\ formTypes = {}
    /\ InitLoad

\* a call of parse_name
ParseCall ==
    \E s \in ParseInputs :
        /\ op = "none"
        /\ op' = "parse"
        /\ arg' = s
        /\ parsed' = parse_name(s)
        /\ UNCHANGED <<has_bz2, files, found, loadVars>>

\* a file comes to exist before the call
CreateFile ==
    \E f \in FileUniverse \ files :
        /\ op = "none"
        /\ Cardinality(files) < MaxFiles
        /\ files' = files \cup {f}
        /\ UNCHANGED <<has_bz2, op, arg, parsed, found, loadVars>>

\* a call of find_fixtures
FindCall ==
    \E l \in FindLabels :
        /\ op = "none"
        /\ op' = "find"
        /\ arg' = l
        /\ parsed' = parse_name(l)
        /\ found' = find_fixtures(l)
        /\ UNCHANGED <<has_bz2, files, loadVars>>

SpecParse == InitPure /\ [][ParseCall]_vars

NextFind == CreateFile \/ FindCall

SpecFind == InitPure /\ [][NextFind]_vars

----------------------------------------------------------------------------
(* load, loaddata, load_label *)

\* settings.BASE_DIR + '/fixtures/initial-required-data', as one directory
FixtureRoot == <<"/", "fx">>

base_form_data_name == FixtureRoot \o <<PathSep, "form_data">>

basic_form_data_file == base_form_data_name \o <<Dot, "json">>

\* the model classes fixtures hold objects of, all of the app dataentry
Classes == {"FormType", "Category"}

AppOf(cls) == "dataentry"

\* the names FormType rows may have
TagNames == {"a", "b"}

\* the deserialized objects a fixture may yield
Objects ==
    {[cls |-> "FormType", name |-> n, tag_enabled |-> t] :
         n \in TagNames, t \in BOOLEAN}
        \cup {[cls |-> "Category", name |-> "", tag_enabled |-> FALSE]}

\* the most objects one fixture file yields
MaxObjects == 2

\* the label lists a caller other than load hands to loaddata: a relative
\* label, searched for in fixture_dirs, and the absolute label of load
DirectLabelLists ==
    LET rel == fd \o <<Dot, "json">>
        abs == basic_form_data_file
    IN  {<<>>, <<rel>>, <<abs>>, <<rel, abs>>, <<abs, rel>>, <<abs, abs>>}

\* the attributes such a caller has set: verbosity, excluded_models,
\* excluded_apps
DirectConfigs ==
    { [verbosity |-> 0, excluded_models |-> {}, excluded_apps |-> {}],
      [verbosity |-> 1, excluded_models |-> {}, excluded_apps |-> {}],
      [verbosity |-> 1, excluded_models |-> {"Category"}, excluded_apps |-> {}],
      [verbosity |-> 0, excluded_models |-> {}, excluded_apps |-> {"dataentry"}] }

\* the files that may exist when a load starts
LoadFiles ==
    { basic_form_data_file,
      base_form_data_name \o <<Dot, "json", Dot, "gz">>,
      base_form_data_name \o <<"_", "a", Dot, "json">>,
      <<"/", "app", "/">> \o fd \o <<Dot, "json">>,
      <<"/", "cwd", "/">> \o fd \o <<Dot, "json">> }

\* the bail-out loop of loaddata: "return", "raise" (find_fixtures raised) or
\* "load"
RECURSIVE BailOut(_, _)
BailOut(labels, i) ==
    IF i > Len(labels) THEN "return"
    ELSE Let(find_fixtures(labels[i]), LAMBDA r :
             IF r.err # "none" THEN "raise"
             ELSE IF r.fixture_files # <<>> THEN "load"
             ELSE BailOut(labels, i + 1))

\* load_label taking the serializer format from the file's name
SerFmtOfFileName(fixture_label, fixture_file) ==
    parse_name(basename(fixture_file)).ser_fmt

\* the ser_fmt load_label deserializes fixture_file of fixture_label with
SerFmtFor(fixture_label, fixture_file) ==
    IF fixture_label = basic_form_data_file
    THEN <<"json">>
    ELSE <<"form_data_tag">>

\* the with block left as soon as the first label is loaded
FirstLabelLoaded == li > 1

\* for fixture_label in fixture_labels is exhausted
AllLabelsLoaded == li > Len(fixture_labels)

\* an object of an excluded app or model
Excluded(obj) == AppOf(obj.cls) \in excluded_apps \/ obj.cls \in excluded_models

\* router.allow_migrate_model(self.using, obj.object.__class__)
Allowed(obj) == obj.cls \notin routerDenied

\* self.models.add placed before the router is asked
ModelsAddedBeforeRouter(obj) == IF Excluded(obj) THEN {} ELSE {obj.cls}

\* what the loop body adds to self.models for obj
ModelsAdded(obj) == IF ~Excluded(obj) /\ Allowed(obj) THEN {obj.cls} ELSE {}

\* a load_label without its finally clause
LeftOpenOnError == TRUE

\* whether the fixture is open once an exception has left load_label's try
OpenAfterError == FALSE

\* the warning given when nothing was loaded from the fixture
NothingLoaded == loaded_objects_in_fixture = 0

\* if objects_in_fixture == 0
WarnNeeded == objects_in_fixture = 0

\* the sequences reset only from the second loaded object on
LoadedMoreThanOne == loaded_object_count > 1

\* if self.loaded_object_count > 0
ResetNeeded == loaded_object_count > 0

\* connection.ops.sequence_reset_sql(no_style(), self.models): one line for
\* each model, on a backend that has sequences
sequence_sql(model_set) == IF hasSequences THEN model_set ELSE {}

\* the FormType table after obj was saved
RowsAfterSave(obj) ==
    IF obj.cls # "FormType" THEN formTypes
    ELSE IF obj.tag_enabled THEN formTypes \cup {obj.name}
    ELSE formTypes \ {obj.name}

\* the orders a query may give the rows of a set in
Orders(S) ==
    {q \in [1..Cardinality(S) -> S] : \A i, j \in 1..Cardinality(S) :
                                          i # j => q[i] # q[j]}

InitEnv ==
    /\ has_bz2 = TRUE
    /\ files \in SUBSET LoadFiles
    /\ op = "none"
    /\ arg = Empty
    /\ parsed = NoParse
    /\ found = NoFind
    /\ routerDenied \in {{}, {"Category"}}
    /\ hasSequences \in BOOLEAN
    /\ formTypes \in {{}, {"b"}}

Init == InitEnv /\ InitLoad

\* load() up to its first call of loaddata
Load ==
    /\ pc = "idle"
    /\ verbosity' = 0
    /\ excluded_models' = {}
    /\ excluded_apps' = {}
    /\ phase' = "base"
    /\ fixture_labels' = <<basic_form_data_file>>
    /\ pc' = "begin"
    /\ UNCHANGED <<pureVars, envVars, countVars, labelVars, fixVars, fileOpen,
                   inBlock, err, runVars>>

\* loaddata called on an object whose attributes the caller has set
Loaddata ==
    \E labels \in DirectLabelLists, cfg \in DirectConfigs :
        /\ pc = "idle"
        /\ verbosity' = cfg.verbosity
        /\ excluded_models' = cfg.excluded_models
        /\ excluded_apps' = cfg.excluded_apps
        /\ phase' = "direct"
        /\ fixture_labels' = labels
        /\ pc' = "begin"
        /\ UNCHANGED <<pureVars, envVars, countVars, labelVars, fixVars,
                       fileOpen, inBlock, err, runVars>>

\* loaddata from its first statement to the with statement
LoaddataBegin ==
    /\ pc = "begin"
    /\ fixture_count' = 0
    /\ loaded_object_count' = 0
    /\ fixture_object_count' = 0
    /\ models' = {}
    /\ opened' = 0
    /\ savedClasses' = {}
    /\ checked' = FALSE
    /\ resetDone' = FALSE
    /\ executed' = {}
    /\ reported' = FALSE
    /\ emptyRead' = 0
    /\ warnings' = 0
    /\ \E out \in {BailOut(fixture_labels, 1)} :
           /\ pc' = CASE out = "return" -> "returned"
                      [] out = "raise"  -> "raised"
                      [] OTHER          -> "label"
           /\ err' = IF out = "raise" THEN "command" ELSE "none"
           /\ inBlock' = (out = "load")
           /\ everDisabled' = (out = "load")
           /\ li' = IF out = "load" THEN 1 ELSE 0
    /\ UNCHANGED <<pureVars, envVars, cfgVars, callVars, fixture_files, fi,
                   ser_fmt, fixVars, fileOpen>>

\* load_label's call of find_fixtures for the next label
LoadLabel ==
    /\ pc = "label"
    /\ ~AllLabelsLoaded
    /\ li <= Len(fixture_labels)
    /\ \E r \in {find_fixtures(fixture_labels[li])} :
           IF r.err # "none"
           THEN /\ pc' = "raised"
                /\ err' = "command"
                /\ inBlock' = FALSE
                /\ UNCHANGED <<fixture_files, fi>>
           ELSE /\ pc' = "open"
                /\ fixture_files' = r.fixture_files
                /\ fi' = 1
                /\ UNCHANGED <<err, inBlock>>
    /\ UNCHANGED <<pureVars, envVars, objVars, callVars, li, ser_fmt, fixVars,
                   fileOpen, runVars>>

\* every label is loaded: the with block is left
LeaveBlock ==
    /\ pc = "label"
    /\ AllLabelsLoaded
    /\ inBlock' = FALSE
    /\ pc' = "check"
    /\ UNCHANGED <<pureVars, envVars, objVars, callVars, labelVars, fixVars,
                   fileOpen, err, runVars>>

\* the fixture files of the label are exhausted: load_label returns
NextLabel ==
    /\ pc = "open"
    /\ fi > Len(fixture_files)
    /\ li' = li + 1
    /\ pc' = "label"
    /\ UNCHANGED <<pureVars, envVars, objVars, callVars, fixture_files, fi,
                   ser_fmt, fixVars, fileOpen, inBlock, err, runVars>>

\* the next fixture file is opened and counted (its name is parsed first,
\* which raises for no name find_fixtures returns)
OpenFixture ==
    /\ pc = "open"
    /\ fi <= Len(fixture_files)
    /\ IF parse_name(basename(fixture_files[fi][1])).err
       THEN /\ pc' = "raised"
            /\ err' = "command"
            /\ inBlock' = FALSE
            /\ UNCHANGED <<ser_fmt, fileOpen, fixture_count, opened, fixVars>>
       ELSE /\ ser_fmt' = SerFmtFor(fixture_labels[li], fixture_files[fi][1])
            /\ fileOpen' = TRUE
            /\ fixture_count' = fixture_count + 1
            /\ opened' = opened + 1
            /\ objects_in_fixture' = 0
            /\ loaded_objects_in_fixture' = 0
            /\ pc' = "objects"
            /\ UNCHANGED <<inBlock, err>>
    /\ UNCHANGED <<pureVars, envVars, cfgVars, loaded_object_count,
                   fixture_object_count, models, callVars, li, fixture_files,
                   fi, savedClasses, everDisabled, checked, resetDone, executed,
                   reported, emptyRead, warnings>>

\* open_method raises (an unreadable file, a zip archive of several files)
OpenFails ==
    /\ pc = "open"
    /\ fi <= Len(fixture_files)
    /\ pc' = "raised"
    /\ err' = "open"
    /\ inBlock' = FALSE
    /\ UNCHANGED <<pureVars, envVars, objVars, callVars, labelVars, fixVars,
                   fileOpen, runVars>>

\* the deserializer yields an object that is excluded or that the router
\* refuses: it is counted as found and passed over
SkipObject ==
    \E obj \in Objects :
        /\ pc = "objects"
        /\ objects_in_fixture < MaxObjects
        /\ Excluded(obj) \/ ~Allowed(obj)
        /\ objects_in_fixture' = objects_in_fixture + 1
        /\ models' = models \cup ModelsAdded(obj)
        /\ UNCHANGED <<pureVars, envVars, cfgVars, fixture_count,
                       loaded_object_count, fixture_object_count, callVars,
                       labelVars, loaded_objects_in_fixture, ctlVars, runVars>>

\* the deserializer yields an object and obj.save stores it
SaveObject ==
    \E obj \in Objects :
        /\ pc = "objects"
        /\ objects_in_fixture < MaxObjects
        /\ ~Excluded(obj) /\ Allowed(obj)
        /\ objects_in_fixture' = objects_in_fixture + 1
        /\ loaded_objects_in_fixture' = loaded_objects_in_fixture + 1
        /\ models' = models \cup ModelsAdded(obj)
        /\ savedClasses' = savedClasses \cup {obj.cls}
        /\ formTypes' = RowsAfterSave(obj)
        /\ UNCHANGED <<pureVars, routerDenied, hasSequences, cfgVars,
                       fixture_count, loaded_object_count, fixture_object_count,
                       callVars, labelVars, ctlVars, opened, everDisabled,
                       checked, resetDone, executed, reported, emptyRead,
                       warnings>>

\* the deserializer yields an object and obj.save raises DatabaseError or
\* IntegrityError: the error is re-raised through load_label's except and
\* finally clauses and through the with block, out of loaddata
SaveFails ==
    \E obj \in Objects :
        /\ pc = "objects"
        /\ objects_in_fixture < MaxObjects
        /\ ~Excluded(obj) /\ Allowed(obj)
        /\ objects_in_fixture' = objects_in_fixture + 1
        /\ loaded_objects_in_fixture' = loaded_objects_in_fixture + 1
        /\ models' = models \cup ModelsAdded(obj)
        /\ savedClasses' = savedClasses \cup {obj.cls}
        /\ fileOpen' = OpenAfterError
        /\ inBlock' = FALSE
        /\ pc' = "raised"
        /\ err' = "save"
        /\ UNCHANGED <<pureVars, envVars, cfgVars, fixture_count,
                       loaded_object_count, fixture_object_count, callVars,
                       labelVars, opened, everDisabled, checked, resetDone,
                       executed, reported, emptyRead, warnings>>

\* the deserializer raises on the fixture's data
DeserializeFails ==
    /\ pc = "objects"
    /\ fileOpen' = OpenAfterError
    /\ inBlock' = FALSE
    /\ pc' = "raised"
    /\ err' = "deserialize"
    /\ UNCHANGED <<pureVars, envVars, objVars, callVars, labelVars, fixVars,
                   runVars>>

\* the fixture is read to its end: its counts are added and it is closed
FixtureRead ==
    /\ pc = "objects"
    /\ loaded_object_count' = loaded_object_count + loaded_objects_in_fixture
    /\ fixture_object_count' = fixture_object_count + objects_in_fixture
    /\ fileOpen' = FALSE
    /\ emptyRead' = emptyRead + (IF objects_in_fixture = 0 THEN 1 ELSE 0)
    /\ pc' = "warn"
    /\ UNCHANGED <<pureVars, envVars, cfgVars, fixture_count, models, callVars,
                   labelVars, fixVars, inBlock, err, opened, savedClasses, everDisabled, checked, resetDone, executed,
                   reported, warnings>>

\* the check for a fixture of no objects, then on to the next fixture file
Warn ==
    /\ pc = "warn"
    /\ warnings' = IF WarnNeeded THEN warnings + 1 ELSE warnings
    /\ fi' = fi + 1
    /\ pc' = "open"
    /\ UNCHANGED <<pureVars, envVars, objVars, callVars, li, fixture_files,
                   ser_fmt, fixVars, fileOpen, inBlock, err, opened, savedClasses, everDisabled, checked, resetDone, executed,
                   reported, emptyRead>>

\* connection.check_constraints returns
CheckConstraints ==
    /\ pc = "check"
    /\ checked' = TRUE
    /\ pc' = "sequences"
    /\ UNCHANGED <<pureVars, envVars, objVars, callVars, labelVars, fixVars,
                   fileOpen, inBlock, err, opened, savedClasses,
                   everDisabled, resetDone, executed, reported, emptyRead,
                   warnings>>

\* connection.check_constraints raises
ConstraintFails ==
    /\ pc = "check"
    /\ pc' = "raised"
    /\ err' = "constraint"
    /\ UNCHANGED <<pureVars, envVars, objVars, callVars, labelVars, fixVars,
                   fileOpen, inBlock, runVars>>

\* the sequence reset: every line of the SQL is executed
ResetSequences ==
    /\ pc = "sequences"
    /\ executed' = IF ResetNeeded THEN sequence_sql(models) ELSE {}
    /\ resetDone' = TRUE
    /\ pc' = "report"
    /\ UNCHANGED <<pureVars, envVars, objVars, callVars, labelVars, fixVars,
                   fileOpen, inBlock, err, opened, savedClasses,
                   everDisabled, checked, reported, emptyRead, warnings>>

\* cursor.execute raises on a line of the sequence-reset SQL
SequenceFails ==
    \E line \in sequence_sql(models) :
        /\ pc = "sequences"
        /\ ResetNeeded
        /\ executed' \in SUBSET (sequence_sql(models) \ {line})
        /\ pc' = "raised"
        /\ err' = "sequence"
        /\ UNCHANGED <<pureVars, envVars, objVars, callVars, labelVars, fixVars,
                       fileOpen, inBlock, opened, savedClasses,
                       everDisabled, checked, resetDone, reported, emptyRead,
                       warnings>>

\* the count report, and loaddata returns
Report ==
    /\ pc = "report"
    /\ reported' = (verbosity >= 1)
    /\ pc' = "returned"
    /\ UNCHANGED <<pureVars, envVars, objVars, callVars, labelVars, fixVars,
                   fileOpen, inBlock, err, opened, savedClasses,
                   everDisabled, checked, resetDone, executed, emptyRead,
                   warnings>>

\* load() after its first loaddata: the tag-enabled FormType rows are queried,
\* a label is built for each, and loaddata is called again if there is one
LoadTags ==
    \E q \in Orders(formTypes) :
        /\ phase = "base"
        /\ pc = "returned"
        /\ LET labels == [i \in 1..Len(q) |->
                             base_form_data_name \o <<"_", q[i], Dot, "json">>]
           IN  IF Len(labels) > 0
               THEN /\ phase' = "tags"
                    /\ fixture_labels' = labels
                    /\ pc' = "begin"
               ELSE /\ phase' = "done"
                    /\ UNCHANGED <<fixture_labels, pc>>
        /\ UNCHANGED <<pureVars, envVars, objVars, labelVars, fixVars, fileOpen,
                       inBlock, err, runVars>>

Next ==
    \/ Load
    \/ Loaddata
    \/ LoaddataBegin
    \/ LoadLabel
    \/ LeaveBlock
    \/ NextLabel
    \/ OpenFixture
    \/ OpenFails
    \/ SkipObject
    \/ SaveObject
    \/ SaveFails
    \/ DeserializeFails
    \/ FixtureRead
    \/ Warn
    \/ CheckConstraints
    \/ ConstraintFails
    \/ ResetSequences
    \/ SequenceFails
    \/ Report
    \/ LoadTags

Spec == Init /\ [][Next]_vars

----------------------------------------------------------------------------
(* Claims about parse_name and find_fixtures *)

\* the recognized compression suffixes
CompressionSuffixes == compression_formats \ {None}

\* the parts of a name that remain once a trailing compression suffix is gone
PartsWithoutCompression(s) ==
    LET parts == rsplit(s, 2)
    IN  IF Last(parts) \in CompressionSuffixes THEN ButLast(parts) ELSE parts

\* name, ser_fmt and cmp_fmt joined again, the absent ones skipped
Rejoin(r) ==
    DotJoin(SelectSeq(<<r.name, r.ser_fmt, r.cmp_fmt>>, LAMBDA e : e # None))

\* C3: parse_name raises the unknown-serialization-format CommandError exactly
\* when, the trailing compression suffix removed from the parts of
\* rsplit('.', 2), more than one part remains and the last is no public
\* serializer format; otherwise name, ser_fmt and cmp_fmt re-joined with '.'
\* give the input back.
C3_ParseName ==
    op = "parse" =>
        /\ parsed.err <=>
              LET rem == PartsWithoutCompression(arg)
              IN  Len(rem) > 1 /\ Last(rem) \notin serialization_formats
        /\ ~parsed.err => Rejoin(parsed) = arg

\* a name of four parts was split into a dotted name, a serializer format and
\* a compression format
C3_Witness ==
    /\ op = "parse"
    /\ ~parsed.err
    /\ parsed.ser_fmt # None
    /\ parsed.cmp_fmt # None
    /\ Dot \in {parsed.name[i] : i \in 1..Len(parsed.name)}

\* the files find_fixtures returned
Returned ==
    IF found.err = "none"
    THEN {found.fixture_files[i][1] : i \in 1..Len(found.fixture_files)}
    ELSE {}

\* the names the claims allow for a fixture called name: name, a dot, and the
\* dot-join of the non-empty members of a triple (db, s, c)
ClaimNames(name, ser, cmp) ==
    LET dbs  == {DEFAULT_DB_ALIAS, None}
        sers == IF ser = None THEN serialization_formats ELSE {ser}
        cmps == IF cmp = None THEN CompressionSuffixes \cup {None} ELSE {cmp}
    IN  { name \o <<Dot>> \o DotJoin(NonEmptyExts(<<db, s, c>>)) :
              db \in dbs, s \in sers, c \in cmps }

\* the directories searched for the label of the call
Searched == {SearchDirs(parsed.name)[i] : i \in 1..Len(SearchDirs(parsed.name))}

\* the files of the searched directories
SearchedFiles == {f \in files : dirname(f) \in Searched}

\* C2 as stated, for a fixture whose name is not empty and with name read as
\* its last path component: a file of a searched directory is returned if and
\* only if its basename is name + '.' + the dot-join of the non-empty members
\* of a triple.
C2_AsStated ==
    (op = "find" /\ ~parsed.err /\ basename(parsed.name) # Empty) =>
        \A f \in SearchedFiles :
            f \in Returned <=>
                basename(f) \in ClaimNames(basename(parsed.name),
                                           parsed.ser_fmt, parsed.cmp_fmt)

\* C2, amended: whenever find_fixtures returns, the files it returns are
\* exactly the files of the searched directories whose basename is the last
\* path component of name + '.' + the dot-join of the non-empty members of a
\* triple; a file that merely starts with the name is not among them.
C2_ReturnedAreTheMatches ==
    (op = "find" /\ found.err = "none") =>
        Returned =
            { f \in SearchedFiles :
                basename(f) \in ClaimNames(basename(parsed.name),
                                           parsed.ser_fmt, parsed.cmp_fmt) }

\* find_fixtures returned a file and left out a file of the same directory
\* whose name starts with the fixture's
C2_Witness ==
    /\ op = "find"
    /\ found.err = "none"
    /\ \E f \in Returned, g \in SearchedFiles \ Returned :
           /\ dirname(f) = dirname(g)
           /\ StartsWith(basename(g), basename(parsed.name))

\* the files of directory d that match the label's target names
Matching(d) ==
    { f \in files :
        /\ dirname(f) = d
        /\ basename(f) \in ClaimNames(basename(parsed.name),
                                      parsed.ser_fmt, parsed.cmp_fmt) }

\* C4: find_fixtures raises "Multiple fixtures named" whenever one searched
\* directory holds more than one matching file, never when every searched
\* directory holds at most one, and for an absolute label it returns exactly one
\* file or raises.
C4_MultipleFixtures ==
    (op = "find" /\ ~parsed.err) =>
        /\ (\E d \in Searched : Cardinality(Matching(d)) > 1)
               => found.err = "multiple"
        /\ (\A d \in Searched : Cardinality(Matching(d)) <= 1)
               => found.err # "multiple"
        /\ (isabs(arg) /\ found.err = "none") => Len(found.fixture_files) = 1

\* C4 for a fixture whose name is not empty (the glob then leaves out no
\* matching file)
C4_NamedFixture ==
    (op = "find" /\ ~parsed.err /\ basename(parsed.name) # Empty) =>
        /\ (\E d \in Searched : Cardinality(Matching(d)) > 1)
               => found.err = "multiple"
        /\ (\A d \in Searched : Cardinality(Matching(d)) <= 1)
               => found.err # "multiple"
        /\ (isabs(arg) /\ found.err = "none") => Len(found.fixture_files) = 1

----------------------------------------------------------------------------
(* Claims about load and loaddata *)

\* obj.save is called in the step
SaveStep == loaded_objects_in_fixture' = loaded_objects_in_fixture + 1

\* C1: every obj.save happens inside the constraint-checks-disabled block;
\* check_constraints is called only when every label has been processed and the
\* block has been left; the sequence-reset SQL is executed only after
\* check_constraints has returned; the count report comes last.
C1_FixedOrder ==
    /\ [][SaveStep => inBlock]_vars
    /\ []((pc # "begin" /\ (pc = "check" \/ checked \/ err = "constraint"))
              => (~inBlock /\ li > Len(fixture_labels)))
    /\ []((resetDone \/ executed # {} \/ err = "sequence") => checked)
    /\ [](reported => (pc = "returned" /\ resetDone))

\* a run that saved objects, reset sequences and wrote its report
C1_Witness ==
    /\ reported
    /\ executed # {}
    /\ savedClasses # {}
    /\ Len(fixture_labels) = 2

\* C5: when obj.save fails the error leaves loaddata: the fixture file is
\* closed, nothing more is processed, check_constraints and the sequence reset
\* are not executed, and the counts are not increased by the failed fixture's
\* objects.
C5_SaveError ==
    /\ [](err = "save" =>
             /\ pc = "raised"
             /\ ~fileOpen
             /\ ~inBlock
             /\ ~checked
             /\ ~resetDone
             /\ executed = {})
    /\ [][err # "save"]_vars
    /\ [][err' = "save" =>
             /\ loaded_object_count' = loaded_object_count
             /\ fixture_object_count' = fixture_object_count]_vars

\* a save failed in a fixture that followed a fixture read to its end
C5_Witness ==
    /\ err = "save"
    /\ fixture_count = 2
    /\ fixture_object_count > 0
    /\ li < Len(fixture_labels)

\* C6: the "No fixture data found" warning is issued if and only if the fixture
\* was read to its end without error and no object was found in it, objects
\* passed over counting as found; it is issued once the file is closed, and the
\* next fixture file is gone on to.
C6_EmptyFixtureWarning ==
    /\ [](pc # "warn" => warnings = emptyRead)
    /\ [](pc = "warn" => (~fileOpen /\ err = "none"))
    /\ [][(pc # "begin" /\ warnings' # warnings) =>
             /\ pc = "warn"
             /\ ~fileOpen
             /\ objects_in_fixture = 0
             /\ warnings' = warnings + 1
             /\ pc' = "open"
             /\ fi' = fi + 1]_vars

\* after a warning, a later fixture was read to its end in which objects were
\* found and none loaded
C6_Witness ==
    /\ pc = "warn"
    /\ warnings = 1
    /\ fixture_count = 2
    /\ objects_in_fixture > 0
    /\ loaded_objects_in_fixture = 0

\* the label load builds for a FormType row
TagLabel(name) == base_form_data_name \o <<"_", name, Dot, "json">>

\* C7: load loads form_data.json first, as 'json'; only when that load has
\* returned does it query the tag-enabled FormType rows and build a label for
\* each; it calls loaddata again if and only if there is such a row, and that
\* call deserializes every file as 'form_data_tag'.
C7_Load ==
    /\ [](phase = "base" => fixture_labels = <<basic_form_data_file>>)
    /\ []((phase = "base" /\ pc = "objects") => ser_fmt = <<"json">>)
    /\ []((phase = "tags" /\ pc = "objects") => ser_fmt = <<"form_data_tag">>)
    /\ [][(phase # "base" /\ phase' = "base") => phase = "idle"]_vars
    /\ [][(phase = "base" /\ phase' # "base") =>
             /\ pc = "returned"
             /\ phase' = IF formTypes = {} THEN "done" ELSE "tags"
             /\ phase' = "tags" =>
                   /\ pc' = "begin"
                   /\ Len(fixture_labels') = Cardinality(formTypes)
                   /\ {fixture_labels'[i] : i \in 1..Len(fixture_labels')}
                          = {TagLabel(n) : n \in formTypes}]_vars
    /\ [][(phase # "tags" /\ phase' = "tags") => phase = "base"]_vars

\* the second loaddata of load, called for two rows, reads a fixture
C7_Witness ==
    /\ phase = "tags"
    /\ pc = "objects"
    /\ Len(fixture_labels) = 2
    /\ parse_name(basename(fixture_files[fi][1])).ser_fmt = <<"json">>

\* C8: when no label matches a fixture file, loaddata returns normally, without
\* disabling constraint checks, calling check_constraints or resetting
\* sequences.
C8_BailOut ==
    (/\ pc \notin {"idle", "begin"}
     /\ \A i \in 1..Len(fixture_labels) :
            find_fixtures(fixture_labels[i]).err = "nofixture")
        => (/\ pc = "returned"
            /\ err = "none"
            /\ ~everDisabled
            /\ ~checked
            /\ ~resetDone)

\* C9: when a loaddata that returns has found an object in a fixture, every
\* line of the sequence-reset SQL of the loaded models has been executed.
C9_SequencesReset ==
    (pc = "returned" /\ fixture_object_count > 0)
        => executed = sequence_sql(models)

\* a loaddata returned that found more objects than it loaded, and reset
\* sequences
C9_Witness ==
    /\ pc = "returned"
    /\ fixture_object_count > loaded_object_count
    /\ executed # {}

====
